---- MODULE Spec2Model ----
(***************************************************************************)
(* Model of ai_agent_example.py: the agentic loop run_agent, the tool      *)
(* registry TOOL_FUNCTIONS with its four handlers, the process-wide note   *)
(* store and the __main__ driver that runs the two demo tasks in turn.     *)
(*                                                                         *)
(* Python strings built with f-strings or join are modelled as sequences   *)
(* of string fragments, so that two outputs are equal exactly when they    *)
(* are built from the same pieces in the same order.                       *)
(***************************************************************************)
EXTENDS Integers, Sequences, FiniteSets, TLC

\* ---------------------------------------------------------------------------
\* Bounds of the exploration
\* ---------------------------------------------------------------------------

\* Total number of content blocks the backend emits over the whole process.
MaxBlocks == 3

\* ---------------------------------------------------------------------------
\* State
\* ---------------------------------------------------------------------------

VARIABLES
    pc,               \* position of the process (see PcValues)
    task,             \* number of tasks of __main__ already completed
    notes,            \* the global note store, in insertion order
    messages,         \* run_agent's local message history
    response,         \* the final message of the last model call
    tool_use_blocks,  \* the tool_use blocks of the response being served
    tool_results,     \* results accumulated by the dispatch loop
    result,           \* value returned by run_agent
    calls,            \* model calls issued by the current run
    executed,         \* dispatch log of the current turn: <<id, raised>>
    replies,          \* per reply received in this run, its tool_use ids
    issued,           \* content blocks emitted by the backend so far
    nextId            \* backend's counter of tool_use ids

vars == <<pc, task, notes, messages, response, tool_use_blocks, tool_results,
          result, calls, executed, replies, issued, nextId>>

PcValues == {"main", "call", "inspect", "dispatch", "append_assistant",
             "append_results", "done", "ended", "failed", "hung", "exit"}

\* ---------------------------------------------------------------------------
\* Helpers on sequences
\* ---------------------------------------------------------------------------

SeqsUpTo(S, n) == UNION {[1..k -> S] : k \in 0..n}

IsPrefix(s, t) == /\ Len(s) <= Len(t)
                  /\ \A i \in 1..Len(s) : s[i] = t[i]

RECURSIVE Filter(_, _)
Filter(s, type) ==
    IF s = <<>> THEN <<>>
    ELSE IF Head(s).type = type THEN <<Head(s)>> \o Filter(Tail(s), type)
         ELSE Filter(Tail(s), type)

\* ---------------------------------------------------------------------------
\* The note store: a Python dict, which keeps insertion order and replaces
\* the value of an existing key in place
\* ---------------------------------------------------------------------------

HasTitle(store, title) == \E i \in 1..Len(store) : store[i][1] = title

DictSet(store, title, content) ==
    IF HasTitle(store, title)
    THEN [i \in 1..Len(store) |->
            IF store[i][1] = title THEN <<title, content>> ELSE store[i]]
    ELSE Append(store, <<title, content>>)

\* ---------------------------------------------------------------------------
\* Tool implementations.
\* ---------------------------------------------------------------------------

MockKeys == <<"climate change", "python programming", "anthropic claude">>

\* The queries of the model, each with the mock keys its lower-cased text
\* contains.
QueryKeys == [q \in {"Climate change causes", "weather today"} |->
                 IF q = "Climate change causes" THEN {"climate change"} ELSE {}]

search_web(query) ==
    LET hits == {i \in 1..Len(MockKeys) : MockKeys[i] \in QueryKeys[query]}
    IN  IF hits # {}
        THEN <<"mock_results[", MockKeys[CHOOSE i \in hits : \A j \in hits : i <= j], "]">>
        ELSE <<"Search results for '", query,
               "': No specific results found. Try a more specific query.">>

\* Outcome of a call: a returned value, a raised exception whose str() is
\* the value, or a call that never returns; store is the note store
\* afterwards.
Returns(value, store) ==
    [raised |-> FALSE, hangs |-> FALSE, value |-> value, store |-> store]
Raises(exc, store) ==
    [raised |-> TRUE, hangs |-> FALSE, value |-> exc, store |-> store]
Hangs(store) ==
    [raised |-> FALSE, hangs |-> TRUE, value |-> <<>>, store |-> store]

\* An expression is a Python string: a sequence of characters.
Digits == {"0", "1", "2", "3", "4", "5", "6", "7", "8", "9"}

UpperToLower ==
    [A |-> "a", B |-> "b", C |-> "c", D |-> "d", E |-> "e", F |-> "f", G |-> "g",
     H |-> "h", I |-> "i", J |-> "j", K |-> "k", L |-> "l", M |-> "m", N |-> "n",
     O |-> "o", P |-> "p", Q |-> "q", R |-> "r", S |-> "s", T |-> "t", U |-> "u",
     V |-> "v", W |-> "w", X |-> "x", Y |-> "y", Z |-> "z"]

Letters == DOMAIN UpperToLower \cup {UpperToLower[c] : c \in DOMAIN UpperToLower}

\* str.lower(), character by character
Lower(expression) ==
    [i \in 1..Len(expression) |->
        IF expression[i] \in DOMAIN UpperToLower THEN UpperToLower[expression[i]]
        ELSE expression[i]]

\* set("0123456789+-*/()., abcdefghijklmnopqrstuvwxyz_")
allowed ==
    Digits \cup {"+", "-", "*", "/", "(", ")", ".", ",", " ", "_"}
           \cup {UpperToLower[c] : c \in DOMAIN UpperToLower}

\* not all(c in allowed for c in expression.lower())
HasInvalidChars(expression) ==
    \E i \in 1..Len(expression) : Lower(expression)[i] \notin allowed

\* The pieces of an expression between its "/" characters.
RECURSIVE SplitSlash(_)
SplitSlash(e) ==
    IF e = <<>> THEN << <<>> >>
    ELSE IF Head(e) = "/" THEN << <<>> >> \o SplitSlash(Tail(e))
         ELSE LET r == SplitSlash(Tail(e))
              IN  << <<Head(e)>> \o Head(r) >> \o Tail(r)

\* A decimal integer literal: digits, without a leading zero unless it is
\* made of zeros only.
IsNumber(p) ==
    /\ p # <<>>
    /\ \A i \in 1..Len(p) : p[i] \in Digits
    /\ (p[1] = "0" => \A i \in 1..Len(p) : p[i] = "0")

IsZero(p) == IsNumber(p) /\ p[1] = "0"

\* An identifier: a letter or underscore, then letters, digits, underscores.
IsName(p) ==
    /\ p # <<>>
    /\ p[1] \in Letters \cup {"_"}
    /\ \A i \in 1..Len(p) : p[i] \in Letters \cup Digits \cup {"_"}

\* Names bound in safe_env: none of them is written with the letters of
\* ExprChars alone.
InSafeEnv(p) == FALSE

\* The pieces parse as operand (("/" | "//") operand)*: operands at both
\* ends, never two empty pieces in a row (that is "///").
ParsesAsDivisions(ps) ==
    /\ ps[1] # <<>>
    /\ ps[Len(ps)] # <<>>
    /\ \A i \in 1..Len(ps) : ps[i] # <<>> => (IsNumber(ps[i]) \/ IsName(ps[i]))
    /\ \A i \in 1..(Len(ps) - 1) : ~(ps[i] = <<>> /\ ps[i + 1] = <<>>)

\* str() of an int literal
StrInt(p) == IF IsZero(p) THEN <<"0">> ELSE p

\* The first operand, in evaluation order, whose evaluation raises: an
\* unbound name, or a divisor equal to zero; 0 if there is none.
FirstFault(ps) ==
    LET faulty == {i \in 1..Len(ps) :
                      \/ (IsName(ps[i]) /\ ~InSafeEnv(ps[i]))
                      \/ (i > 1 /\ IsZero(ps[i]))}
    IN  IF faulty = {} THEN 0 ELSE CHOOSE i \in faulty : \A j \in faulty : i <= j

\* An expression of allowed characters whose evaluation does not return
\* within the life of the process: the power tower's value has more digits
\* than the machine can hold or compute.
HugePower == <<"9", "*", "*", "9", "*", "*", "9", "*", "*", "9">>

\* eval(expression, {"__builtins__": {}}, safe_env) followed by str(result),
\* for the expressions of the model: chains of divisions of integer literals
\* and names, and HugePower. A quotient is written as its operands.
Eval(expression) ==
    IF expression = HugePower THEN Hangs(<<>>)
    ELSE LET ps == SplitSlash(expression)
         IN  IF ~ParsesAsDivisions(ps) THEN Raises(<<"invalid syntax">>, <<>>)
             ELSE IF FirstFault(ps) # 0
                  THEN IF IsName(ps[FirstFault(ps)])
                       THEN Raises(<<"name '">> \o ps[FirstFault(ps)]
                                   \o <<"' is not defined">>, <<>>)
                       ELSE Raises(<<"division by zero">>, <<>>)
                  ELSE IF Len(ps) = 1 THEN Returns(StrInt(ps[1]), <<>>)
                       ELSE Returns(<<"quotient(">> \o expression \o <<")">>, <<>>)

\* Variant: the allow-list is checked on the expression as given, not on
\* its lower-cased form.
calculate_case_sensitive(expression) ==
    IF \E i \in 1..Len(expression) : expression[i] \notin allowed
    THEN Returns(<<"Error: Expression contains invalid characters.">>, <<>>)
    ELSE LET r == Eval(expression)
         IN  IF r.raised
             THEN Returns(<<"Error evaluating expression: ">> \o r.value, <<>>)
             ELSE r

\* calculate: the outcome of the call (its store field is not used)
calculate(expression) ==
    IF HasInvalidChars(expression)
    THEN Returns(<<"Error: Expression contains invalid characters.">>, <<>>)
    ELSE LET r == Eval(expression)
         IN  IF r.raised
             THEN Returns(<<"Error evaluating expression: ">> \o r.value, <<>>)
             ELSE r

take_note(store, title, content) ==
    [value |-> <<"Note '", title, "' saved successfully.">>,
     store |-> DictSet(store, title, content)]

RECURSIVE JoinLines(_)
JoinLines(lines) ==
    IF Len(lines) = 1 THEN Head(lines)
    ELSE Head(lines) \o <<"\n">> \o JoinLines(Tail(lines))

list_notes(store) ==
    IF store = <<>> THEN <<"No notes saved yet.">>
    ELSE JoinLines([i \in 1..Len(store) |->
                       <<"- ", store[i][1], ": ", store[i][2]>>])

\* ---------------------------------------------------------------------------
\* Tool registry and dispatch
\* ---------------------------------------------------------------------------

\* Keys of the TOOL_FUNCTIONS dict.
TOOL_FUNCTIONS == {"search_web", "calculate", "take_note", "list_notes"}

\* str() of a KeyError is the repr of the missing key
KeyError(key) == <<"'", key, "'">>

\* Variant: list_notes hands the notes out and empties the store.
CallTool_list_drains(name, inp, store) ==
    IF name \notin TOOL_FUNCTIONS THEN Raises(KeyError(name), store)
    ELSE CASE name = "search_web" ->
                IF "query" \notin DOMAIN inp THEN Raises(KeyError("query"), store)
                ELSE Returns(search_web(inp.query), store)
           [] name = "calculate" ->
                IF "expression" \notin DOMAIN inp
                THEN Raises(KeyError("expression"), store)
                ELSE [calculate(inp.expression) EXCEPT !.store = store]
           [] name = "take_note" ->
                IF "title" \notin DOMAIN inp THEN Raises(KeyError("title"), store)
                ELSE IF "content" \notin DOMAIN inp
                     THEN Raises(KeyError("content"), store)
                     ELSE LET r == take_note(store, inp.title, inp.content)
                          IN  Returns(r.value, r.store)
           [] name = "list_notes" -> Returns(list_notes(store), <<>>)

\* TOOL_FUNCTIONS[name](inp): the dict lookup and the lambda's subscripts
\* raise KeyError on a missing key.
CallTool(name, inp, store) ==
    IF name \notin TOOL_FUNCTIONS THEN Raises(KeyError(name), store)
    ELSE CASE name = "search_web" ->
                IF "query" \notin DOMAIN inp THEN Raises(KeyError("query"), store)
                ELSE Returns(search_web(inp.query), store)
           [] name = "calculate" ->
                IF "expression" \notin DOMAIN inp
                THEN Raises(KeyError("expression"), store)
                ELSE [calculate(inp.expression) EXCEPT !.store = store]
           [] name = "take_note" ->
                IF "title" \notin DOMAIN inp THEN Raises(KeyError("title"), store)
                ELSE IF "content" \notin DOMAIN inp
                     THEN Raises(KeyError("content"), store)
                     ELSE LET r == take_note(store, inp.title, inp.content)
                          IN  Returns(r.value, r.store)
           [] name = "list_notes" -> Returns(list_notes(store), store)

\* The try/except around the call: an exception becomes the result string
\* "Error: <exc>".
TryCall(name, inp, store) ==
    LET r == CallTool(name, inp, store)
    IN  IF r.raised THEN [r EXCEPT !.value = <<"Error: ">> \o r.value]
        ELSE r

\* Variant: every result echoes the id of the first tool_use block.
ToolResultBlock_first_id(tool_use, content) ==
    [type |-> "tool_result", tool_use_id |-> tool_use_blocks[1].id,
     content |-> content]

\* The dict appended to tool_results for one tool_use block.
ToolResultBlock(tool_use, content) ==
    [type |-> "tool_result", tool_use_id |-> tool_use.id, content |-> content]

\* ---------------------------------------------------------------------------
\* The backend: what a model call may return
\* ---------------------------------------------------------------------------

StopReasons == {"end_turn", "tool_use", "max_tokens"}

NoInput == <<>>

\* Tool invocations the backend may request (name and input object): a
\* search that succeeds, a search whose input lacks the required field, a
\* note to save, the listing of the notes, a tool that is not registered,
\* and a calculation that does not come to an end.
ToolCalls ==
    { [name |-> "search_web", input |-> [query |-> "Climate change causes"]],
      [name |-> "search_web", input |-> NoInput],
      [name |-> "calculate",  input |-> [expression |-> HugePower]],
      [name |-> "take_note",  input |-> [title |-> "T1", content |-> "c1"]],
      [name |-> "list_notes", input |-> NoInput],
      [name |-> "get_weather", input |-> NoInput] }

\* Shapes of content blocks: a block before the backend gives it an id.
BlockShapes ==
    { [type |-> "thinking", thinking |-> "th"],
      [type |-> "text", text |-> "t1"],
      [type |-> "text", text |-> "t2"] }
    \cup { [type |-> "tool_use", name |-> c.name, input |-> c.input] : c \in ToolCalls }

\* The backend numbers the tool_use blocks it emits: ids are unique.
WithIds(shapes, first) ==
    [i \in 1..Len(shapes) |->
        IF shapes[i].type = "tool_use"
        THEN [type |-> "tool_use",
              id |-> first + Cardinality({j \in 1..(i-1) : shapes[j].type = "tool_use"}),
              name |-> shapes[i].name, input |-> shapes[i].input]
        ELSE shapes[i]]

\* The ids of the tool_use blocks of a content, in order.
ToolUseIds(content) ==
    LET blocks == Filter(content, "tool_use")
    IN  [k \in 1..Len(blocks) |-> blocks[k].id]

NoResponse == [content |-> <<>>, stop_reason |-> "none"]

\* ---------------------------------------------------------------------------
\* __main__
\* ---------------------------------------------------------------------------

tasks == <<"task 1", "task 2">>

Init ==
    /\ pc = "main"
    /\ task = 0
    /\ notes = <<>>
    /\ messages = <<>>
    /\ response = NoResponse
    /\ tool_use_blocks = <<>>
    /\ tool_results = <<>>
    /\ result = "None"
    /\ calls = 0
    /\ executed = <<>>
    /\ replies = <<>>
    /\ issued = 0
    /\ nextId = 1

\* Variant: every run starts on a note store of its own.
StartRun_fresh_store ==
    /\ pc = "main"
    /\ task < Len(tasks)
    /\ pc' = "call"
    /\ messages' = <<[role |-> "user", content |-> tasks[task + 1]]>>
    /\ response' = NoResponse
    /\ tool_use_blocks' = <<>>
    /\ tool_results' = <<>>
    /\ result' = "None"
    /\ calls' = 0
    /\ executed' = <<>>
    /\ replies' = <<>>
    /\ notes' = <<>>
    /\ UNCHANGED <<task, issued, nextId>>

\* for task in tasks: result = run_agent(task), up to the while loop
StartRun ==
    /\ pc = "main"
    /\ task < Len(tasks)
    /\ pc' = "call"
    /\ messages' = <<[role |-> "user", content |-> tasks[task + 1]]>>
    /\ response' = NoResponse
    /\ tool_use_blocks' = <<>>
    /\ tool_results' = <<>>
    /\ result' = "None"
    /\ calls' = 0
    /\ executed' = <<>>
    /\ replies' = <<>>
    /\ UNCHANGED <<task, notes, issued, nextId>>

\* the for loop over tasks is exhausted
Exit ==
    /\ pc = "main"
    /\ task = Len(tasks)
    /\ pc' = "exit"
    /\ UNCHANGED <<task, notes, messages, response, tool_use_blocks,
                   tool_results, result, calls, executed, replies, issued,
                   nextId>>

\* ---------------------------------------------------------------------------
\* run_agent
\* ---------------------------------------------------------------------------

\* client.messages.stream(...) / get_final_message(): the assembled response
ModelCall ==
    /\ pc = "call"
    /\ \E shapes \in SeqsUpTo(BlockShapes, MaxBlocks - issued),
          stop \in StopReasons :
          /\ response' = [content |-> WithIds(shapes, nextId), stop_reason |-> stop]
          /\ issued' = issued + Len(shapes)
          /\ nextId' = nextId + Len(Filter(shapes, "tool_use"))
          /\ replies' = Append(replies, ToolUseIds(WithIds(shapes, nextId)))
    /\ calls' = calls + 1
    /\ pc' = "inspect"
    /\ UNCHANGED <<task, notes, messages, tool_use_blocks, tool_results, result,
                   executed>>

\* Variant: a failed model call is silently retried.
ModelFail_retry ==
    /\ pc = "call"
    /\ calls' = calls + 1
    /\ pc' = "call"
    /\ UNCHANGED <<task, notes, messages, response, tool_use_blocks,
                   tool_results, result, executed, replies, issued, nextId>>

\* the model call raises: the exception leaves run_agent and __main__
ModelFail ==
    /\ pc = "call"
    /\ calls' = calls + 1
    /\ pc' = "failed"
    /\ UNCHANGED <<task, notes, messages, response, tool_use_blocks,
                   tool_results, result, executed, replies, issued, nextId>>

\* Variant: the text of the last text block is returned.
FinalText_last(content) ==
    LET texts == Filter(content, "text")
    IN  IF texts = <<>> THEN "(no text response)" ELSE texts[Len(texts)].text

\* next((b.text for b in content if b.type == "text"), "(no text response)")
FinalText(content) ==
    LET texts == Filter(content, "text")
    IN  IF texts = <<>> THEN "(no text response)" ELSE texts[1].text

\* Variant: the final reply is appended to the history before returning.
ReturnFinal_appends ==
    /\ pc = "inspect"
    /\ response.stop_reason = "end_turn"
    /\ result' = FinalText(response.content)
    /\ messages' = Append(messages, [role |-> "assistant", content |-> response.content])
    /\ pc' = "done"
    /\ UNCHANGED <<task, notes, response, tool_use_blocks,
                   tool_results, calls, executed, replies, issued, nextId>>

\* stop_reason == "end_turn": return final_text
ReturnFinal ==
    /\ pc = "inspect"
    /\ response.stop_reason = "end_turn"
    /\ result' = FinalText(response.content)
    /\ pc' = "done"
    /\ UNCHANGED <<task, notes, messages, response, tool_use_blocks,
                   tool_results, calls, executed, replies, issued, nextId>>

NoFinalResponse == "(agent loop ended without final response)"

\* Variant: the loop continues with the next model call instead of breaking.
BreakNoTools_continue ==
    /\ pc = "inspect"
    /\ response.stop_reason # "end_turn"
    /\ tool_use_blocks' = Filter(response.content, "tool_use")
    /\ tool_use_blocks' = <<>>
    /\ pc' = "call"
    /\ UNCHANGED <<task, notes, messages, response, tool_results, result, calls,
                   executed, replies, issued, nextId>>

\* no tool_use block: break, then return the fixed string
BreakNoTools ==
    /\ pc = "inspect"
    /\ response.stop_reason # "end_turn"
    /\ tool_use_blocks' = Filter(response.content, "tool_use")
    /\ tool_use_blocks' = <<>>
    /\ result' = NoFinalResponse
    /\ pc' = "ended"
    /\ UNCHANGED <<task, notes, messages, response, tool_results, calls,
                   executed, replies, issued, nextId>>

\* Variant: tools are served on stop_reason "tool_use" only; any other stop
\* reason ends the run like a reply without tool_use blocks.
CollectTools_tool_use_only ==
    /\ pc = "inspect"
    /\ response.stop_reason # "end_turn"
    /\ tool_use_blocks' = Filter(response.content, "tool_use")
    /\ tool_use_blocks' # <<>>
    /\ IF response.stop_reason = "tool_use"
       THEN /\ tool_results' = <<>>
            /\ executed' = <<>>
            /\ pc' = "dispatch"
            /\ result' = result
       ELSE /\ result' = NoFinalResponse
            /\ pc' = "ended"
            /\ UNCHANGED <<tool_results, executed>>
    /\ UNCHANGED <<task, notes, messages, response, calls, replies,
                   issued, nextId>>

\* Variant: only the first tool_use block of the response is served.
CollectTools_first_only ==
    /\ pc = "inspect"
    /\ response.stop_reason # "end_turn"
    /\ Filter(response.content, "tool_use") # <<>>
    /\ tool_use_blocks' = <<Filter(response.content, "tool_use")[1]>>
    /\ tool_results' = <<>>
    /\ executed' = <<>>
    /\ pc' = "dispatch"
    /\ UNCHANGED <<task, notes, messages, response, result, calls, replies,
                   issued, nextId>>

\* tool_use_blocks is not empty: tool_results = [] and enter the for loop
CollectTools ==
    /\ pc = "inspect"
    /\ response.stop_reason # "end_turn"
    /\ tool_use_blocks' = Filter(response.content, "tool_use")
    /\ tool_use_blocks' # <<>>
    /\ tool_results' = <<>>
    /\ executed' = <<>>
    /\ pc' = "dispatch"
    /\ UNCHANGED <<task, notes, messages, response, result, calls, replies,
                   issued, nextId>>

\* Variant: the try block covers the registry lookup only, so an exception
\* raised inside a registered handler leaves run_agent.
DispatchOne_handler_escapes ==
    /\ pc = "dispatch"
    /\ Len(tool_results) < Len(tool_use_blocks)
    /\ LET tool_use == tool_use_blocks[Len(tool_results) + 1]
           r == TryCall(tool_use.name, tool_use.input, notes)
       IN  IF r.raised /\ tool_use.name \in TOOL_FUNCTIONS
           THEN /\ pc' = "failed"
                /\ UNCHANGED <<notes, tool_results, executed>>
           ELSE /\ ~r.hangs
                /\ pc' = pc
                /\ notes' = r.store
                /\ tool_results' = Append(tool_results, ToolResultBlock(tool_use, r.value))
                /\ executed' = Append(executed, <<tool_use.id, r.raised>>)
    /\ UNCHANGED <<task, messages, response, tool_use_blocks, result, calls,
                   replies, issued, nextId>>

\* Variant: the registry lookup is done outside the try block, so the
\* KeyError of an unregistered name leaves run_agent.
DispatchOne_lookup_escapes ==
    /\ pc = "dispatch"
    /\ Len(tool_results) < Len(tool_use_blocks)
    /\ LET tool_use == tool_use_blocks[Len(tool_results) + 1]
           r == TryCall(tool_use.name, tool_use.input, notes)
       IN  IF tool_use.name \notin TOOL_FUNCTIONS
           THEN /\ pc' = "failed"
                /\ UNCHANGED <<notes, tool_results, executed>>
           ELSE /\ ~r.hangs
                /\ pc' = pc
                /\ notes' = r.store
                /\ tool_results' = Append(tool_results, ToolResultBlock(tool_use, r.value))
                /\ executed' = Append(executed, <<tool_use.id, r.raised>>)
    /\ UNCHANGED <<task, messages, response, tool_use_blocks, result, calls,
                   replies, issued, nextId>>

\* Variant: the invocations of a turn are served from the last to the first.
DispatchOne_reverse ==
    /\ pc = "dispatch"
    /\ Len(tool_results) < Len(tool_use_blocks)
    /\ LET tool_use == tool_use_blocks[Len(tool_use_blocks) - Len(tool_results)]
           r == TryCall(tool_use.name, tool_use.input, notes)
       IN  /\ ~r.hangs
           /\ notes' = r.store
           /\ tool_results' = Append(tool_results, ToolResultBlock(tool_use, r.value))
           /\ executed' = Append(executed, <<tool_use.id, r.raised>>)
    /\ UNCHANGED <<pc, task, messages, response, tool_use_blocks, result, calls,
                   replies, issued, nextId>>

\* Variant: each result is put in front of the results gathered so far.
DispatchOne_prepend ==
    /\ pc = "dispatch"
    /\ Len(tool_results) < Len(tool_use_blocks)
    /\ LET tool_use == tool_use_blocks[Len(tool_results) + 1]
           r == TryCall(tool_use.name, tool_use.input, notes)
       IN  /\ ~r.hangs
           /\ notes' = r.store
           /\ tool_results' = <<ToolResultBlock(tool_use, r.value)>> \o tool_results
           /\ executed' = Append(executed, <<tool_use.id, r.raised>>)
    /\ UNCHANGED <<pc, task, messages, response, tool_use_blocks, result, calls,
                   replies, issued, nextId>>

\* one iteration of "for tool_use in tool_use_blocks"
DispatchOne ==
    /\ pc = "dispatch"
    /\ Len(tool_results) < Len(tool_use_blocks)
    /\ LET tool_use == tool_use_blocks[Len(tool_results) + 1]
           r == TryCall(tool_use.name, tool_use.input, notes)
       IN  /\ ~r.hangs
           /\ notes' = r.store
           /\ tool_results' = Append(tool_results, ToolResultBlock(tool_use, r.value))
           /\ executed' = Append(executed, <<tool_use.id, r.raised>>)
    /\ UNCHANGED <<pc, task, messages, response, tool_use_blocks, result, calls,
                   replies, issued, nextId>>

\* the handler of the next tool_use block never returns: run_agent stays in
\* the call
DispatchHang ==
    /\ pc = "dispatch"
    /\ Len(tool_results) < Len(tool_use_blocks)
    /\ LET tool_use == tool_use_blocks[Len(tool_results) + 1]
       IN  TryCall(tool_use.name, tool_use.input, notes).hangs
    /\ pc' = "hung"
    /\ UNCHANGED <<task, notes, messages, response, tool_use_blocks,
                   tool_results, result, calls, executed, replies, issued,
                   nextId>>

\* Variant: the for loop is left after its first iteration.
DispatchDone_early ==
    /\ pc = "dispatch"
    /\ Len(tool_results) >= 1
    /\ pc' = "append_assistant"
    /\ UNCHANGED <<task, notes, messages, response, tool_use_blocks,
                   tool_results, result, calls, executed, replies, issued,
                   nextId>>

\* the for loop is exhausted
DispatchDone ==
    /\ pc = "dispatch"
    /\ Len(tool_results) = Len(tool_use_blocks)
    /\ pc' = "append_assistant"
    /\ UNCHANGED <<task, notes, messages, response, tool_use_blocks,
                   tool_results, result, calls, executed, replies, issued,
                   nextId>>

\* Variant: only the tool_use blocks of the reply are kept in the history.
AppendAssistant_tools_only ==
    /\ pc = "append_assistant"
    /\ messages' = Append(messages, [role |-> "assistant", content |-> tool_use_blocks])
    /\ pc' = "append_results"
    /\ UNCHANGED <<task, notes, response, tool_use_blocks, tool_results, result,
                   calls, executed, replies, issued, nextId>>

\* messages.append({"role": "assistant", "content": response.content})
AppendAssistant ==
    /\ pc = "append_assistant"
    /\ messages' = Append(messages, [role |-> "assistant", content |-> response.content])
    /\ pc' = "append_results"
    /\ UNCHANGED <<task, notes, response, tool_use_blocks, tool_results, result,
                   calls, executed, replies, issued, nextId>>

\* Variant: the results overwrite the last turn instead of being appended.
AppendResults_overwrite ==
    /\ pc = "append_results"
    /\ messages' = [messages EXCEPT ![Len(messages)] =
                        [role |-> "user", content |-> tool_results]]
    /\ pc' = "call"
    /\ UNCHANGED <<task, notes, response, tool_use_blocks, tool_results, result,
                   calls, executed, replies, issued, nextId>>

\* messages.append({"role": "user", "content": tool_results}), back to the
\* top of the while loop
AppendResults ==
    /\ pc = "append_results"
    /\ messages' = Append(messages, [role |-> "user", content |-> tool_results])
    /\ pc' = "call"
    /\ UNCHANGED <<task, notes, response, tool_use_blocks, tool_results, result,
                   calls, executed, replies, issued, nextId>>

\* run_agent has returned: __main__ prints the result and takes the next
\* task; the locals of run_agent are gone
BackToMain ==
    /\ pc \in {"done", "ended"}
    /\ pc' = "main"
    /\ task' = task + 1
    /\ messages' = <<>>
    /\ response' = NoResponse
    /\ tool_use_blocks' = <<>>
    /\ tool_results' = <<>>
    /\ executed' = <<>>
    /\ replies' = <<>>
    /\ UNCHANGED <<notes, result, calls, issued, nextId>>

Next ==
    \/ StartRun
    \/ Exit
    \/ ModelCall
    \/ ModelFail
    \/ ReturnFinal
    \/ BreakNoTools
    \/ CollectTools
    \/ DispatchOne
    \/ DispatchHang
    \/ DispatchDone
    \/ AppendAssistant
    \/ AppendResults
    \/ BackToMain

Spec == Init /\ [][Next]_vars

\* The process is the only thread: it takes its next step whenever it has one.
FairSpec == Spec /\ WF_vars(Next)

\* ---------------------------------------------------------------------------
\* The dispatch loop on a turn of given invocations: the run has received,
\* as the first reply of a run, a tool_use turn drawn from the turns below;
\* the backend has one more block to emit afterwards.
\* ---------------------------------------------------------------------------

\* Length of the expressions given to calculate.
MaxExprLen == 3

\* Number of note invocations in a turn.
MaxNoteCalls == 2

\* Characters of the expressions: two digits, the division sign, an
\* upper-case letter, and a character outside the allow-list.
ExprChars == {"2", "0", "/", "A", "$"}

Expressions == SeqsUpTo(ExprChars, MaxExprLen) \cup {HugePower}

CalcTurns ==
    { << [type |-> "tool_use", name |-> "calculate",
          input |-> [expression |-> e]] >> : e \in Expressions }

NoteInputs ==
    { [title |-> "T1", content |-> "c1"],
      [title |-> "T1", content |-> "c2"],
      [title |-> "T2", content |-> "c1"] }

NoteCalls ==
    { [type |-> "tool_use", name |-> "take_note", input |-> i] : i \in NoteInputs }
    \cup { [type |-> "tool_use", name |-> "list_notes", input |-> NoInput] }

NoteTurns == SeqsUpTo(NoteCalls, MaxNoteCalls) \ {<<>>}

\* The stores that take_note can have built from NoteInputs.
Stores ==
    { s \in SeqsUpTo({<<i.title, i.content>> : i \in NoteInputs}, 2) :
        \A j, k \in 1..Len(s) : s[j][1] = s[k][1] => j = k }

\* The first run starts with an empty store; the second run starts with
\* whatever the first one saved.
ToolInit ==
    \E turn \in CalcTurns \cup NoteTurns, store \in Stores, done \in {0, 1} :
        /\ done = 0 => store = <<>>
        /\ turn \in CalcTurns => done = 0
        /\ pc = "dispatch"
        /\ task = done
        /\ notes = store
        /\ messages = <<[role |-> "user", content |-> tasks[done + 1]]>>
        /\ response = [content |-> WithIds(turn, 1), stop_reason |-> "tool_use"]
        /\ tool_use_blocks = WithIds(turn, 1)
        /\ tool_results = <<>>
        /\ result = "None"
        /\ calls = 1
        /\ executed = <<>>
        /\ replies = <<ToolUseIds(WithIds(turn, 1))>>
        /\ issued = MaxBlocks - 1
        /\ nextId = Len(turn) + 1

ToolSpec == ToolInit /\ [][Next]_vars

TypeOK ==
    /\ pc \in PcValues
    /\ task \in 0..Len(tasks)
    /\ issued \in 0..MaxBlocks
    /\ pc = "dispatch" => Len(tool_results) <= Len(tool_use_blocks)

\* ---------------------------------------------------------------------------
\* Properties
\* ---------------------------------------------------------------------------

Range(s) == {s[i] : i \in 1..Len(s)}

\* The positions of the history that hold a tool-result batch: every user
\* turn but the seed.
BatchTurns(history) == {i \in 2..Len(history) : history[i].role = "user"}

ResultIds(batch) == [k \in 1..Len(batch) |-> batch[k].tool_use_id]

\* A batch answers a content when its ids are the content's tool_use ids:
\* as many, the same ones, none twice.
Answers(batch, content) ==
    /\ Len(batch) = Len(ToolUseIds(content))
    /\ Range(ResultIds(batch)) = Range(ToolUseIds(content))
    /\ Cardinality(Range(ResultIds(batch))) = Len(batch)

\* The steps taken inside run_agent, before it returns.
InRun == pc \in {"call", "inspect", "dispatch", "append_assistant", "append_results"}

\* C1 -- Correlation invariant: in every reachable history, every
\* tool-result batch directly follows an assistant turn, and its
\* tool_use_id values are exactly the ids of that turn's tool_use blocks:
\* same size, same members, no duplicate.
C1_Correlation ==
    \A i \in BatchTurns(messages) :
        /\ messages[i - 1].role = "assistant"
        /\ \A k \in 1..Len(messages[i].content) :
              messages[i].content[k].type = "tool_result"
        /\ Answers(messages[i].content, messages[i - 1].content)

\* A history holding a batch of two results for two invocations.
C1_Witness ==
    \E i \in BatchTurns(messages) :
        /\ Len(messages[i].content) = 2
        /\ Len(ToolUseIds(messages[i - 1].content)) = 2

\* The dispatch of the current turn is complete: every invocation of the
\* response was dispatched exactly once and has exactly one result.
TurnAnswered ==
    /\ \A id \in Range(ToolUseIds(response.content)) :
          /\ Cardinality({k \in 1..Len(executed) : executed[k][1] = id}) = 1
          /\ Cardinality({k \in 1..Len(tool_results) :
                             tool_results[k].tool_use_id = id}) = 1
    /\ Len(executed) = Len(ToolUseIds(response.content))
    /\ Len(tool_results) = Len(ToolUseIds(response.content))

\* C2 -- Model calls are sequential with tool dispatch: a model call that
\* follows a turn with tool invocations is issued only when each of them was
\* dispatched exactly once and has exactly one result, those results being
\* the last turn of the history; and a tool-result turn is appended only
\* when the dispatch of the whole turn is complete, never a partial batch.
C2_Sequential ==
    [][ /\ (calls' = calls + 1 /\ calls >= 1) =>
              /\ TurnAnswered
              /\ Len(messages) >= 3
              /\ messages[Len(messages)] = [role |-> "user", content |-> tool_results]
              /\ messages[Len(messages) - 1] =
                    [role |-> "assistant", content |-> response.content]
        /\ (InRun /\ messages' # messages /\ messages'[Len(messages')].role = "user") =>
              /\ TurnAnswered
              /\ messages'[Len(messages')].content = tool_results
      ]_vars

\* A second model call is about to be issued after a turn of two invocations.
C2_Witness ==
    /\ pc = "call"
    /\ calls = 1
    /\ Len(ToolUseIds(response.content)) = 2
    /\ Len(executed) = 2

\* C3 -- The history is append-only within a run: every step of run_agent
\* leaves the history it found as a prefix of the new one.
C3_AppendOnly == [][InRun => IsPrefix(messages, messages')]_vars

\* Two rounds of tool use were appended to the seed turn.
C3_Witness == InRun /\ Len(messages) >= 5

\* C4 -- Multi-tool batching: when the backend's first reply of a run is a
\* turn with k >= 1 tool invocations and its second reply is end_turn, the
\* loop has executed all k invocations, has appended exactly one tool-result
\* batch holding exactly k results that answer them, and completes with
\* exactly 2 model calls issued.
C4_Batching ==
    [][ (/\ pc = "inspect"
         /\ response.stop_reason = "end_turn"
         /\ Len(replies) = 2
         /\ replies[1] # <<>>) =>
            /\ pc' = "done"
            /\ calls' = 2
            /\ Len(messages') = 3
            /\ messages'[2].role = "assistant"
            /\ ToolUseIds(messages'[2].content) = replies[1]
            /\ BatchTurns(messages') = {3}
            /\ Len(messages'[3].content) = Len(replies[1])
            /\ Answers(messages'[3].content, messages'[2].content)
            /\ Len(executed') = Len(replies[1])
            /\ {executed'[k][1] : k \in 1..Len(executed')} = Range(replies[1])
      ]_vars

\* A run completed by end_turn after a first turn of three invocations.
C4_Witness ==
    /\ pc = "done"
    /\ calls = 2
    /\ Len(replies[1]) = 3
    /\ Len(messages[3].content) = 3

\* The first text block of a content, by position.
IsFirstText(content, i) ==
    /\ content[i].type = "text"
    /\ \A j \in 1..(i - 1) : content[j].type # "text"

\* C5 -- Termination on end_turn: a reply with stop_reason end_turn ends the
\* run at that turn: run_agent returns the text of the turn's first text
\* block ("(no text response)" when it has none), appends nothing and issues
\* no further model call; the model calls of the run are the replies received,
\* so a first reply of end_turn completes the run in exactly one model call.
C5_EndTurn ==
    [][ /\ (pc = "inspect" /\ response.stop_reason = "end_turn") =>
              /\ pc' = "done"
              /\ \A i \in 1..Len(response.content) :
                    IsFirstText(response.content, i) => result' = response.content[i].text
              /\ (\A i \in 1..Len(response.content) : response.content[i].type # "text")
                    => result' = "(no text response)"
              /\ messages' = messages
              /\ calls' = calls
              /\ calls = Len(replies)
        /\ pc = "done" => (pc' = "main" /\ calls' = calls /\ result' = result)
      ]_vars

\* A first reply of end_turn whose first text block is neither the first
\* block nor the only text block.
C5_Witness ==
    /\ pc = "done"
    /\ calls = 1
    /\ Len(response.content) = 3
    /\ response.content[1].type = "thinking"
    /\ response.content[2].type = "text"
    /\ response.content[3].type = "text"
    /\ response.content[3].text # response.content[2].text
    /\ result = response.content[2].text

\* The dispatch loop is about to serve an invocation.
Dispatching == pc = "dispatch" /\ Len(tool_results) < Len(tool_use_blocks)

NextToolUse == tool_use_blocks[Len(tool_results) + 1]

\* C6 -- Tool failures never abort the loop: whatever exception the call of
\* an invocation raises, the dispatch records for that invocation's id a
\* result "Error: <exception>", stays in the loop to serve the remaining
\* invocations, and the turn ends with the next model call, every failed
\* invocation having its error result.
C6_ToolFailure ==
    [][ /\ (Dispatching
             /\ CallTool(NextToolUse.name, NextToolUse.input, notes).raised) =>
              /\ pc' = "dispatch"
              /\ tool_results' = Append(tool_results,
                    [type |-> "tool_result", tool_use_id |-> NextToolUse.id,
                     content |-> <<"Error: ">> \o
                        CallTool(NextToolUse.name, NextToolUse.input, notes).value])
        /\ (pc = "append_results" /\ \E k \in 1..Len(executed) : executed[k][2]) =>
              /\ pc' = "call"
              /\ Len(executed) = Len(ToolUseIds(response.content))
              /\ \A k \in 1..Len(executed) : executed[k][2] =>
                    /\ messages'[Len(messages')].content[k].tool_use_id = executed[k][1]
                    /\ messages'[Len(messages')].content[k].content[1] = "Error: "
      ]_vars

\* A handler raised on a missing input field, a later invocation of the
\* same turn was served, and the next model call is about to be issued.
C6_Witness ==
    /\ pc = "call"
    /\ Len(executed) >= 2
    /\ executed[1][2]
    /\ tool_use_blocks[1].name \in TOOL_FUNCTIONS
    /\ ~executed[2][2]

\* The response asks for a tool that is not registered.
AsksUnknownTool ==
    \E k \in 1..Len(tool_use_blocks) : tool_use_blocks[k].name \notin TOOL_FUNCTIONS

\* C7 -- Unknown tool: an invocation whose name is not a key of
\* TOOL_FUNCTIONS does not abort the run: it gets exactly one result, for its
\* id, whose message names the missing tool; the store is untouched, the
\* other invocations of the turn are executed as well, and the loop goes on
\* to the next model call.
C7_UnknownTool ==
    [][ /\ (Dispatching /\ NextToolUse.name \notin TOOL_FUNCTIONS) =>
              /\ pc' = "dispatch"
              /\ Len(tool_results') = Len(tool_results) + 1
              /\ IsPrefix(tool_results, tool_results')
              /\ tool_results'[Len(tool_results')].tool_use_id = NextToolUse.id
              /\ tool_results'[Len(tool_results')].content =
                    <<"Error: ", "'", NextToolUse.name, "'">>
              /\ notes' = notes
        /\ (pc = "append_results" /\ AsksUnknownTool) =>
              /\ pc' = "call"
              /\ Len(tool_results) = Len(tool_use_blocks)
              /\ tool_use_blocks = Filter(response.content, "tool_use")
              /\ \A k \in 1..Len(tool_use_blocks) :
                    Cardinality({j \in 1..Len(tool_results) :
                        tool_results[j].tool_use_id = tool_use_blocks[k].id}) = 1
      ]_vars

\* An unregistered tool was asked for first, a note was taken by the next
\* invocation of the same turn, and the next model call is about to be issued.
C7_Witness ==
    /\ pc = "call"
    /\ Len(tool_use_blocks) >= 2
    /\ tool_use_blocks[1].name = "get_weather"
    /\ tool_use_blocks[2].name = "take_note"
    /\ Len(tool_results) = Len(tool_use_blocks)
    /\ notes # <<>>

\* C8 -- Error tagging: every result of the dispatch loop carries an
\* is_error flag, true when the invocation failed (unknown tool, or handler
\* that raised) and false when it succeeded.
C8_ErrorTagged ==
    pc \in {"dispatch", "append_assistant", "append_results"} =>
        \A k \in 1..Len(tool_results) :
            /\ "is_error" \in DOMAIN tool_results[k]
            /\ tool_results[k].is_error = executed[k][2]

\* C9 -- Protocol-violation guard: a reply whose stop_reason is tool_use but
\* which holds no tool_use block ends the run at once through the return
\* that follows the loop (the outcome NoToolCallsProduced, with the fixed
\* result that no normal completion path produces): no tool is executed,
\* nothing is appended, and no further model call is issued by the run.
C9_NoToolCalls ==
    [][ /\ (/\ pc = "inspect"
             /\ response.stop_reason = "tool_use"
             /\ ToolUseIds(response.content) = <<>>) =>
              /\ pc' = "ended"
              /\ result' = NoFinalResponse
              /\ messages' = messages
              /\ notes' = notes
              /\ executed' = executed
              /\ tool_results' = tool_results
              /\ calls' = calls
        /\ pc = "ended" =>
              /\ pc' = "main"
              /\ calls' = calls
              /\ notes' = notes
              /\ result' = NoFinalResponse
      ]_vars

\* The second reply of a run claimed tool use without any tool_use block,
\* and the run has ended after its two model calls.
C9_Witness ==
    /\ pc = "ended"
    /\ response.stop_reason = "tool_use"
    /\ Len(response.content) >= 1
    /\ ToolUseIds(response.content) = <<>>
    /\ calls = 2
    /\ Len(messages) = 3

\* The maximum turn count the run is configured with.
MaxTurns == 2

\* C10 -- Bounded turns: a run issues at most the configured maximum number
\* of model calls, whatever the backend replies.
C10_BoundedTurns == calls <= MaxTurns

\* C11 -- Backend failure: a model call that fails (it is issued and no
\* reply comes back) is not retried: the exception leaves run_agent, the
\* history is exactly what it was before the call, and the failed run takes
\* no further step.
C11_BackendFailure ==
    [][ /\ (pc = "call" /\ calls' = calls + 1 /\ replies' = replies) =>
              /\ pc' = "failed"
              /\ messages' = messages
              /\ result' = result
        /\ pc # "failed"
      ]_vars

\* The second model call of a run failed, after a round of tool use.
C11_Witness ==
    /\ pc = "failed"
    /\ calls = 2
    /\ Len(messages) = 3
    /\ result = "None"

\* C12: a tool handler that does not return does not block the run for ever:
\* after a per-call timeout the invocation becomes a tool error, and the run
\* goes on to its next model call or ends.
C12_ToolTimeout ==
    (pc = "hung") ~> (pc \in {"call", "done", "ended", "failed"})

\* C13 -- list_notes is read-only and idempotent: whatever the store holds,
\* the dispatch of a list_notes invocation leaves the store as it was, and
\* its result is the result of every earlier list_notes invocation of the
\* turn that no take_note separates from it.
C13_ListNotesReadOnly ==
    [][ (Dispatching /\ NextToolUse.name = "list_notes") =>
            /\ notes' = notes
            /\ Len(tool_results') = Len(tool_results) + 1
            /\ \A j \in 1..Len(tool_results) :
                  (/\ tool_use_blocks[j].name = "list_notes"
                   /\ \A k \in j..Len(tool_results) :
                         tool_use_blocks[k].name # "take_note") =>
                      tool_results'[Len(tool_results')].content =
                          tool_results[j].content
      ]_vars

\* Two list_notes invocations in a row were served from a store of two notes.
C13_Witness ==
    /\ pc = "dispatch"
    /\ Len(notes) = 2
    /\ Len(tool_results) = 2
    /\ tool_use_blocks[1].name = "list_notes"
    /\ tool_use_blocks[2].name = "list_notes"
    /\ tool_results[1].content = tool_results[2].content
    /\ tool_results[1].content = list_notes(notes)

C15_ResultOrder ==
    /\ \A i \in BatchTurns(messages) :
          ResultIds(messages[i].content) = ToolUseIds(messages[i - 1].content)
    /\ pc = "dispatch" =>
          IsPrefix(ResultIds(tool_results), ToolUseIds(response.content))

\* A batch of three results, in the order of the three invocations.
C15_Witness ==
    /\ Len(messages) = 3
    /\ Len(messages[3].content) = 3
    /\ ResultIds(messages[3].content) = ToolUseIds(messages[2].content)
    /\ messages[3].content[1].tool_use_id # messages[3].content[3].tool_use_id

\* C16 -- as the claim words it: while an invocation of a turn is still to be
\* dispatched, the assistant turn is already the last turn of the history.
C16_AppendBeforeDispatch ==
    Dispatching =>
        /\ messages[Len(messages)].role = "assistant"
        /\ messages[Len(messages)].content = response.content

\* C16 -- as the code has it: the history does not change while a turn is
\* dispatched; the assistant turn is appended once every invocation of the
\* turn has been dispatched, and it is the reply's content, every block of
\* it, unchanged and in order; the tool-result batch is appended directly
\* after it.
C16_AppendAfterDispatch ==
    [][ /\ pc = "dispatch" => messages' = messages
        /\ (InRun /\ messages' # messages
                  /\ messages'[Len(messages')].role = "assistant") =>
              /\ messages' = Append(messages,
                    [role |-> "assistant", content |-> response.content])
              /\ Len(executed) = Len(ToolUseIds(response.content))
              /\ Len(tool_results) = Len(ToolUseIds(response.content))
        /\ pc = "append_results" =>
              /\ messages[Len(messages)] =
                    [role |-> "assistant", content |-> response.content]
              /\ messages' = Append(messages, [role |-> "user", content |-> tool_results])
      ]_vars

\* The turn of a thinking block, a text block and an invocation has been
\* appended after the dispatch of the invocation.
C16_Witness ==
    /\ pc = "append_results"
    /\ Len(messages) = 2
    /\ Len(messages[2].content) = 3
    /\ messages[2].content[1].type = "thinking"
    /\ messages[2].content[2].type = "text"
    /\ messages[2].content[3].type = "tool_use"
    /\ Len(tool_results) = 1

\* The number of model calls of the run whose reply has been appended, with
\* its batch, when the history is sent or the run has just returned.
RoundsDone == IF pc = "call" THEN calls ELSE calls - 1

\* C17 -- History shape at every model call: the history sent with the
\* (n+1)-th model call of a run has 2n+1 turns; its first turn is the seed
\* user turn of the task; the turns after it are assistant turn and
\* tool-result batch in alternation, each assistant turn being directly
\* followed by the batch that answers it; its last turn is never an
\* assistant turn; and when the run returns on end_turn or on a reply
\* without invocations, that last reply is not in the history.
C17_HistoryShape ==
    pc \in {"call", "inspect", "done", "ended"} =>
        /\ Len(messages) = 2 * RoundsDone + 1
        /\ messages[1] = [role |-> "user", content |-> tasks[task + 1]]
        /\ messages[Len(messages)].role = "user"
        /\ \A i \in 2..Len(messages) :
              IF i % 2 = 0
              THEN /\ messages[i].role = "assistant"
                   /\ messages[i + 1].role = "user"
                   /\ Answers(messages[i + 1].content, messages[i].content)
              ELSE /\ messages[i].role = "user"
                   /\ \A k \in 1..Len(messages[i].content) :
                         messages[i].content[k].type = "tool_result"

\* The run returned on the end_turn reply of its third model call: the
\* history holds the seed and two rounds, and not that reply.
C17_Witness ==
    /\ pc = "done"
    /\ calls = 3
    /\ Len(messages) = 5
    /\ response.stop_reason = "end_turn"
    /\ response.content # <<>>

\* A reply whose stop_reason is neither end_turn nor tool_use.
OtherStop == response.stop_reason \notin {"end_turn", "tool_use"}

\* C18 -- Stop reasons other than end_turn are handled like tool_use: a
\* reply with another stop reason and at least one tool_use block has all
\* its tool_use blocks put to dispatch, and once they are executed both
\* turns are appended and the next model call is due; such a reply without
\* a tool_use block ends the run with the fixed result and an unchanged
\* history. On end_turn the run returns with nothing executed and nothing
\* appended, tool_use blocks in the content or not.
C18_StopReasons ==
    [][ /\ (pc = "inspect" /\ OtherStop /\ ToolUseIds(response.content) # <<>>) =>
              /\ pc' = "dispatch"
              /\ tool_use_blocks' = Filter(response.content, "tool_use")
              /\ tool_results' = <<>>
        /\ (pc = "append_results" /\ OtherStop) =>
              /\ TurnAnswered
              /\ messages[Len(messages)].content = response.content
              /\ messages' = Append(messages, [role |-> "user", content |-> tool_results])
              /\ pc' = "call"
        /\ (pc = "inspect" /\ OtherStop /\ ToolUseIds(response.content) = <<>>) =>
              /\ pc' = "ended"
              /\ result' = NoFinalResponse
              /\ messages' = messages
        /\ (pc = "inspect" /\ response.stop_reason = "end_turn") =>
              /\ pc' = "done"
              /\ UNCHANGED <<messages, notes, tool_results, executed>>
      ]_vars

\* A max_tokens reply with two invocations has been served and appended,
\* and the next model call is due.
C18_Witness ==
    /\ pc = "call"
    /\ calls = 1
    /\ response.stop_reason = "max_tokens"
    /\ Len(messages) = 3
    /\ Len(messages[3].content) = 2
    /\ Len(executed) = 2

\* The listing text holds the line "- <title>: <content>".
Shows(text, title, content) ==
    \E p \in 1..(Len(text) - 3) :
        /\ text[p] = "- "
        /\ text[p + 1] = title
        /\ text[p + 2] = ": "
        /\ text[p + 3] = content

\* Block k of the turn is take_note of the title, with whatever content.
TakesNote(k, title) ==
    /\ tool_use_blocks[k].name = "take_note"
    /\ "title" \in DOMAIN tool_use_blocks[k].input
    /\ "content" \in DOMAIN tool_use_blocks[k].input
    /\ tool_use_blocks[k].input.title = title

\* The last take_note of the title before block j saved this content.
SavedBefore(j, title, content) ==
    \E k \in 1..(j - 1) :
        /\ TakesNote(k, title)
        /\ tool_use_blocks[k].input.content = content
        /\ \A m \in (k + 1)..(j - 1) : ~TakesNote(m, title)

\* C19 -- Within one model turn the invocations are executed one at a time
\* in the order of the turn: the k-th handler run is the one of the k-th
\* tool_use block, and it has returned, with its result recorded, before the
\* next one starts. So a list_notes invocation lists every note that a
\* take_note earlier in the turn saved; and in a turn that started on an
\* empty store it lists nothing else, in particular no note of a take_note
\* that comes later in the turn.
C19_InOrder ==
    pc = "dispatch" =>
        /\ Len(executed) = Len(tool_results)
        /\ \A k \in 1..Len(executed) :
              /\ executed[k][1] = tool_use_blocks[k].id
              /\ tool_results[k].tool_use_id = tool_use_blocks[k].id
        /\ \A j \in 1..Len(tool_results) :
              tool_use_blocks[j].name = "list_notes" =>
                \A i \in NoteInputs :
                    /\ SavedBefore(j, i.title, i.content) =>
                          Shows(tool_results[j].content, i.title, i.content)
                    /\ (task = 0 /\ calls = 1
                          /\ Shows(tool_results[j].content, i.title, i.content)) =>
                          SavedBefore(j, i.title, i.content)

\* In the first turn of the first run, list_notes came before take_note and
\* listed no note.
C19_Witness ==
    /\ pc = "dispatch"
    /\ task = 0
    /\ calls = 1
    /\ Len(tool_results) = 2
    /\ tool_use_blocks[1].name = "list_notes"
    /\ TakesNote(2, "T1")
    /\ tool_results[1].content = <<"No notes saved yet.">>
    /\ notes # <<>>

\* C20 -- The note store outlives a run: no step of the process, the start
\* and the end of a run included, removes a note or moves it; the store
\* changes only by the dispatch of a take_note, which sets the content of
\* its title, adding the title if it is new, and leaves every other note as
\* it was; and list_notes lists every note of the store, whichever run
\* saved it.
C20_StoreOutlivesRun ==
    [][ /\ Len(notes') >= Len(notes)
        /\ \A i \in 1..Len(notes) : notes'[i][1] = notes[i][1]
        /\ notes' # notes =>
              /\ Dispatching
              /\ TakesNote(Len(tool_results) + 1, NextToolUse.input.title)
              /\ \A i \in 1..Len(notes) :
                    notes[i][1] # NextToolUse.input.title => notes'[i] = notes[i]
              /\ \E i \in 1..Len(notes') :
                    notes'[i] = <<NextToolUse.input.title, NextToolUse.input.content>>
              /\ Len(notes') = IF HasTitle(notes, NextToolUse.input.title)
                               THEN Len(notes) ELSE Len(notes) + 1
        /\ (Dispatching /\ NextToolUse.name = "list_notes") =>
              \A i \in 1..Len(notes) :
                  Shows(tool_results'[Len(tool_results')].content,
                        notes[i][1], notes[i][2])
      ]_vars

\* The first run saved T1 twice and T2 was never saved; the first turn of
\* the second run lists T1 with the content saved last.
C20_Witness ==
    /\ task = 1
    /\ calls = 1
    /\ pc = "dispatch"
    /\ Len(tool_results) = 1
    /\ tool_use_blocks[1].name = "list_notes"
    /\ tool_use_blocks[1].id = 3
    /\ tool_results[1].content = <<"- ", "T1", ": ", "c2">>

====
